---- MODULE Spec2Model ----
(***************************************************************************)
(* TeamUpPlugin (src/main.py): team sign-up and random team assignment.    *)
(*                                                                         *)
(* The plugin state is self.state = {"scopes": ..., "nicknames": ...} and  *)
(* the file state.json.  Every command handler is one action.              *)
(*                                                                         *)
(* Python dicts keep insertion order, so "teams" is a sequence of          *)
(* [name, members] entries; "sessions" and "scopes" are only ever looked   *)
(* up by key (or iterated when they hold one entry), so they are           *)
(* functions on their key sets.                                            *)
(*                                                                         *)
(* TLA+ strings are ASCII, so the source's literals are written            *)
(*   "benqun" for the scope keyword of this group,                         *)
(*   "kuaqun" for the cross-group scope keyword,                           *)
(*   "quanbu" for the mode word of the full reshuffle,                     *)
(*   "Team"   for the prefix of generated team names.                      *)
(***************************************************************************)
EXTENDS Integers, Sequences, FiniteSets, TLC

VARIABLES scopes, nicknames, disk, pre, cmd, reply

vars == <<scopes, nicknames, disk, pre, cmd, reply>>

(***************************************************************************)
(* Bounds and input sets.                                                  *)
(***************************************************************************)
\* largest per-team capacity an administrator asks for
MaxTeamSize == 3

\* the senders
Users == {"u1", "u2", "u3"}

\* the session names typed
SessionNames == {"A", "B", "C"}

\* config "admin_ids"
admin_ids == {"u1"}

(***************************************************************************)
(* Sequence and dict helpers (Python list / dict semantics).               *)
(***************************************************************************)
Range(s) == {s[i] : i \in DOMAIN s}

\* s[:n]
Take(s, n) == SubSeq(s, 1, IF n < Len(s) THEN n ELSE Len(s))

\* s[n:]
Drop(s, n) == SubSeq(s, (IF n < Len(s) THEN n ELSE Len(s)) + 1, Len(s))

\* the orders random.shuffle can leave a list in
Shuffles(s) ==
  LET n == Len(s)
      Bij == {f \in [1..n -> 1..n] : \A i, j \in 1..n : f[i] = f[j] => i = j}
  IN {[i \in 1..n |-> s[f[i]]] : f \in Bij}

\* key in teams
HasTeam(teams, name) == \E i \in DOMAIN teams : teams[i].name = name

\* teams[name]
TeamMembers(teams, name) ==
  LET i == CHOOSE k \in DOMAIN teams : teams[k].name = name
  IN teams[i].members

\* teams[name] = members: an existing key keeps its place, a new key goes last
SetTeam(teams, name, members) ==
  IF HasTeam(teams, name)
  THEN [i \in DOMAIN teams |->
          IF teams[i].name = name
          THEN [name |-> name, members |-> members] ELSE teams[i]]
  ELSE Append(teams, [name |-> name, members |-> members])

\* every user id a session holds, teams in enumeration order, then free
RECURSIVE TeamsFlat(_)
TeamsFlat(teams) ==
  IF teams = <<>> THEN <<>>
  ELSE Head(teams).members \o TeamsFlat(Tail(teams))

\* dict with one more key
Put(d, k, v) == [x \in DOMAIN d \cup {k} |-> IF x = k THEN v ELSE d[x]]

\* dict.pop(k, None)
Pop(d, k) == [x \in DOMAIN d \ {k} |-> d[x]]

EmptyDict == [x \in {} |-> 0]

\* str.strip() on a command token; tokens are whitespace-delimited
strip(s) == IF s = " " THEN "" ELSE s

(***************************************************************************)
(* Helpers of the plugin.                                                  *)
(***************************************************************************)
\* _ensure_unique: keep the first occurrence of every element
RECURSIVE EnsureUniqueFrom(_, _)
EnsureUniqueFrom(lst, seen) ==
  IF lst = <<>> THEN <<>>
  ELSE IF Head(lst) \in seen THEN EnsureUniqueFrom(Tail(lst), seen)
  ELSE <<Head(lst)>> \o EnsureUniqueFrom(Tail(lst), seen \cup {Head(lst)})

_ensure_unique(lst) == EnsureUniqueFrom(lst, {})

\* mutant of _remove_from_all: the user is taken out of free only
_remove_from_all_free_only(session, user_id) ==
  LET keep(x) == x # user_id
  IN [session EXCEPT !.free = SelectSeq(session.free, keep)]

\* mutant of _remove_from_all: a team left empty is kept
_remove_from_all_keep_empty(session, user_id) ==
  LET keep(x) == x # user_id
  IN [session EXCEPT
        !.free = SelectSeq(session.free, keep),
        !.teams = [i \in DOMAIN session.teams |->
                     [name |-> session.teams[i].name,
                      members |-> SelectSeq(session.teams[i].members, keep)]]]

\* mutant of _remove_from_all: a team left with fewer than two members is
\* deleted
_remove_from_all_drop_short(session, user_id) ==
  LET keep(x) == x # user_id
      filtered == [i \in DOMAIN session.teams |->
                     [name |-> session.teams[i].name,
                      members |-> SelectSeq(session.teams[i].members, keep)]]
      long(t) == Len(t.members) > 1
  IN [session EXCEPT !.free = SelectSeq(session.free, keep),
                     !.teams = SelectSeq(filtered, long)]

\* _remove_from_all: drop user_id from free and from every team, delete
\* the teams left empty
_remove_from_all(session, user_id) ==
  LET keep(x) == x # user_id
      filtered == [i \in DOMAIN session.teams |->
                     [name |-> session.teams[i].name,
                      members |-> SelectSeq(session.teams[i].members, keep)]]
      nonempty(t) == t.members # <<>>
  IN [session EXCEPT !.free = SelectSeq(session.free, keep),
                     !.teams = SelectSeq(filtered, nonempty)]

\* the scope state a missing key is created with
EmptyScope == [sessions |-> EmptyDict, active |-> ""]

\* _get_scope_state: setdefault on self.state["scopes"]
_get_scope_state(scs, scope_id) ==
  IF scope_id \in DOMAIN scs THEN scs ELSE Put(scs, scope_id, EmptyScope)

\* _get_session_name: the key _get_session resolves to, "" for None
_get_session_name(scope_state, session_name) ==
  LET sessions == scope_state.sessions
      active == scope_state.active
  IN IF session_name # ""
     THEN (IF session_name \in DOMAIN sessions THEN session_name ELSE "")
     ELSE IF active # "" /\ active \in DOMAIN sessions THEN active
     ELSE IF Cardinality(DOMAIN sessions) = 1
          THEN CHOOSE k \in DOMAIN sessions : TRUE
     ELSE ""

\* mutant of _get_session: without a name and a valid active, any session
\* of a non-empty scope is taken
_get_session_any(scope_state, session_name) ==
  LET sessions == scope_state.sessions
      active == scope_state.active
      ref(k) == IF k \in DOMAIN sessions THEN k ELSE ""
  IN IF session_name # "" THEN ref(session_name)
     ELSE IF active # "" /\ active \in DOMAIN sessions THEN ref(active)
     ELSE IF Cardinality(DOMAIN sessions) >= 1
          THEN CHOOSE k \in DOMAIN sessions : TRUE
     ELSE ""

\* _get_session: the session object returned; a reference into the sessions
\* dict is modelled by the key it is stored under, None by ""
_get_session(scope_state, session_name) ==
  LET sessions == scope_state.sessions
      active == scope_state.active
      ref(k) == IF k \in DOMAIN sessions THEN k ELSE ""
  IN IF session_name # "" THEN ref(session_name)
     ELSE IF active # "" /\ active \in DOMAIN sessions THEN ref(active)
     ELSE IF Cardinality(DOMAIN sessions) = 1
          THEN CHOOSE k \in DOMAIN sessions : TRUE
     ELSE ""

\* mutant of _create_session: the active pointer is left as it was
_create_session_keep_active(scope_state, name, team_size, creator) ==
  [sessions |-> Put(scope_state.sessions, name,
                    [team_size |-> team_size, teams |-> <<>>,
                     free |-> <<>>, created_by |-> creator]),
   active |-> scope_state.active]

\* _create_session
_create_session(scope_state, name, team_size, creator) ==
  [sessions |-> Put(scope_state.sessions, name,
                    [team_size |-> team_size, teams |-> <<>>,
                     free |-> <<>>, created_by |-> creator]),
   active |-> name]

\* f"Team{idx}"
TeamName(idx) == "Team" \o ToString(idx)

\* mutant of TopUp: the users are taken from the back of free
RECURSIVE TopUpFromBack(_, _, _, _)
TopUpFromBack(teams, free, i, team_size) ==
  IF i > Len(teams) \/ free = <<>> THEN [teams |-> teams, free |-> free]
  ELSE LET members == teams[i].members
           room == IF Len(members) < team_size
                   THEN team_size - Len(members) ELSE 0
           cut == IF room < Len(free) THEN Len(free) - room ELSE 0
           filled == [teams EXCEPT ![i].members = members \o Drop(free, cut)]
       IN TopUpFromBack(filled, Take(free, cut), i + 1, team_size)

\* mutant of TopUp: a team is topped up while len(members) <= team_size
RECURSIVE TopUpOverfill(_, _, _, _)
TopUpOverfill(teams, free, i, team_size) ==
  IF i > Len(teams) \/ free = <<>> THEN [teams |-> teams, free |-> free]
  ELSE LET members == teams[i].members
           room == IF Len(members) <= team_size
                   THEN team_size + 1 - Len(members) ELSE 0
           filled == [teams EXCEPT ![i].members = members \o Take(free, room)]
       IN TopUpOverfill(filled, Drop(free, room), i + 1, team_size)

\* _assign_free, first loop: top up the teams in enumeration order
RECURSIVE TopUp(_, _, _, _)
TopUp(teams, free, i, team_size) ==
  IF i > Len(teams) \/ free = <<>> THEN [teams |-> teams, free |-> free]
  ELSE LET members == teams[i].members
           room == IF Len(members) < team_size
                   THEN team_size - Len(members) ELSE 0
           filled == [teams EXCEPT ![i].members = members \o Take(free, room)]
       IN TopUp(filled, Drop(free, room), i + 1, team_size)

\* mutant of OpenTeams: the names are not checked against the teams
RECURSIVE OpenTeamsOverwrite(_, _, _, _)
OpenTeamsOverwrite(teams, free, idx, team_size) ==
  IF free = <<>> THEN [teams |-> teams, free |-> free]
  ELSE OpenTeamsOverwrite(SetTeam(teams, TeamName(idx), Take(free, team_size)),
                          Drop(free, team_size), idx + 1, team_size)

\* _assign_free, second loop: open new teams under the first unused names
RECURSIVE OpenTeams(_, _, _, _)
OpenTeams(teams, free, idx, team_size) ==
  IF free = <<>> THEN [teams |-> teams, free |-> free]
  ELSE IF HasTeam(teams, TeamName(idx))
       THEN OpenTeams(teams, free, idx + 1, team_size)
  ELSE OpenTeams(SetTeam(teams, TeamName(idx), Take(free, team_size)),
                 Drop(free, team_size), idx, team_size)

\* _assign_free; shuffled is the order random.shuffle left free in
_assign_free(session, shuffled) ==
  LET topped == TopUp(session.teams, shuffled, 1, session.team_size)
      opened == OpenTeams(topped.teams, topped.free, 1, session.team_size)
  IN [session EXCEPT !.teams = opened.teams, !.free = opened.free]

\* mutant of _find_user_team: the size is the number of teams
_find_user_team_count(session, user_id) ==
  LET hits == {i \in DOMAIN session.teams :
                 user_id \in Range(session.teams[i].members)}
  IN IF hits = {} THEN [name |-> "", size |-> 0]
     ELSE LET i == CHOOSE k \in hits : \A j \in hits : k <= j
          IN [name |-> session.teams[i].name, size |-> Len(session.teams)]

\* _find_user_team: the first team holding user_id and its size
_find_user_team(session, user_id) ==
  LET hits == {i \in DOMAIN session.teams :
                 user_id \in Range(session.teams[i].members)}
  IN IF hits = {} THEN [name |-> "", size |-> 0]
     ELSE LET i == CHOOSE k \in hits : \A j \in hits : k <= j
          IN [name |-> session.teams[i].name,
              size |-> Len(session.teams[i].members)]

(***************************************************************************)
(* Event and argument decoding.                                            *)
(***************************************************************************)
DigitChars == <<"0", "1", "2", "3", "4", "5", "6", "7", "8", "9">>

\* str.isdigit on a text given as its characters
isdigit(text) == text # <<>> /\ \A i \in DOMAIN text : text[i] \in Range(DigitChars)

DigitValue(c) == (CHOOSE i \in DOMAIN DigitChars : DigitChars[i] = c) - 1

\* int(text) for a text of digits
RECURSIVE int(_)
int(text) ==
  IF text = <<>> THEN 0
  ELSE 10 * int(SubSeq(text, 1, Len(text) - 1)) + DigitValue(text[Len(text)])

\* the decimal text of n >= 0
RECURSIVE Decimal(_)
Decimal(n) ==
  IF n < 10 THEN <<DigitChars[n + 1]>>
  ELSE Decimal(n \div 10) \o <<DigitChars[(n % 10) + 1]>>

\* _get_group_id: "" stands for None (no group, or an empty group id)
_get_group_id(event) == event.group

\* mutant of _get_scope_id: in a group chat the group scope is taken first
_get_scope_id_group_first(event, scope) ==
  IF _get_group_id(event) # "" THEN "group:" \o _get_group_id(event)
  ELSE IF strip(scope) = "kuaqun" THEN "global"
  ELSE ""

\* _get_scope_id: "" stands for None
_get_scope_id(event, scope) ==
  IF strip(scope) = "kuaqun" THEN "global"
  ELSE IF _get_group_id(event) = "" THEN ""
  ELSE "group:" \o _get_group_id(event)

_get_sender_id(event) == event.sender

\* mutant of _is_group_admin: any role counts
_is_group_admin_any_role(event) == event.role # ""

\* _is_group_admin: the sender's owner/admin flag, role or permission
_is_group_admin(event) == event.role \in {"owner", "admin"}

_is_super_admin(user_id) == user_id \in admin_ids

_has_admin_rights(event) ==
  _is_super_admin(_get_sender_id(event)) \/ _is_group_admin(event)

(***************************************************************************)
(* State, commands and replies.                                            *)
(*   scopes    self.state["scopes"]: scope id -> [sessions, active]        *)
(*   nicknames self.state["nicknames"]: user id -> nickname                *)
(*   disk      the file state.json                                         *)
(*   pre       scopes and nicknames when the last command arrived          *)
(*   cmd       the last command: handler, event, arguments, the order      *)
(*             random.shuffle produced and the outcome of write_text       *)
(*   reply     the last command's response                                 *)
(***************************************************************************)
NoArgs ==
  [team_size |-> <<>>, name |-> "", team_name |-> "", session_name |-> "",
   scope |-> "benqun", mode |-> "", nickname |-> <<>>, shuffled |-> <<>>,
   write |-> "none"]

NoEvent == [group |-> "", sender |-> "", role |-> ""]

Cmd(handler, event, args) ==
  [handler |-> handler, event |-> event] @@ args @@ NoArgs

Rep(kind) ==
  [kind |-> kind, title |-> "", teams |-> <<>>, free |-> <<>>, size |-> 0,
   lines |-> <<>>]

NoFile == [kind |-> "missing", scopes |-> EmptyDict, nicknames |-> EmptyDict]

\* _save_state: write_text replaces the file, fails leaving it as it was,
\* or fails after truncating it
_save_state(scs, nicks, outcome) ==
  CASE outcome = "ok" ->
         [kind |-> "json", scopes |-> scs, nicknames |-> nicks]
    [] outcome = "truncated" ->
         [kind |-> "corrupt", scopes |-> EmptyDict, nicknames |-> EmptyDict]
    [] OTHER -> disk

\* the end of a handler: scs and nicks are self.state as the handler leaves
\* it, write the outcome of its _save_state call ("none": no call)
Finish(c, rep, scs, nicks, write) ==
  /\ cmd.handler = "idle"
  /\ pre' = [scopes |-> scopes, nicknames |-> nicknames]
  /\ cmd' = [c EXCEPT !.write = write]
  /\ reply' = rep
  /\ scopes' = scs
  /\ nicknames' = nicks
  /\ disk' = _save_state(scs, nicks, write)

\* session stored through the reference ref
WithSession(scs, scope_id, ref, session) ==
  [scs EXCEPT ![scope_id].sessions[ref] = session]

\* mutant of JoinNamedTeam: the team is set to the joining user alone
JoinNamedTeamAlone(session, team_name, uid) ==
  [session EXCEPT !.teams = SetTeam(@, team_name, <<uid>>)]

\* teams.setdefault(team_name, []); append; _ensure_unique
JoinNamedTeam(session, team_name, uid) ==
  LET old == IF HasTeam(session.teams, team_name)
             THEN TeamMembers(session.teams, team_name) ELSE <<>>
  IN [session EXCEPT
        !.teams = SetTeam(@, team_name, _ensure_unique(Append(old, uid)))]

\* session.setdefault("free", []).append(uid); _ensure_unique
JoinFree(session, uid) ==
  [session EXCEPT !.free = _ensure_unique(Append(@, uid))]

(***************************************************************************)
(* __init__ and _load_state: a process start.                              *)
(***************************************************************************)
_load_state ==
  IF disk.kind = "json"
  THEN [scopes |-> disk.scopes, nicknames |-> disk.nicknames]
  ELSE [scopes |-> EmptyDict, nicknames |-> EmptyDict]

Init ==
  /\ scopes = EmptyDict
  /\ nicknames = EmptyDict
  /\ disk = NoFile
  /\ pre = [scopes |-> EmptyDict, nicknames |-> EmptyDict]
  /\ cmd = Cmd("idle", NoEvent, NoArgs)
  /\ reply = Rep("none")

Restart ==
  /\ cmd.handler = "idle"
  /\ pre' = [scopes |-> scopes, nicknames |-> nicknames]
  /\ cmd' = Cmd("__init__", NoEvent, NoArgs)
  /\ reply' = Rep("none")
  /\ scopes' = _load_state.scopes
  /\ nicknames' = _load_state.nicknames
  /\ disk' = disk

\* the handler has returned and its reply is sent: the plugin waits for the
\* next command
Return ==
  /\ cmd.handler # "idle"
  /\ pre' = [scopes |-> scopes, nicknames |-> nicknames]
  /\ cmd' = Cmd("idle", NoEvent, NoArgs)
  /\ reply' = Rep("none")
  /\ UNCHANGED <<scopes, nicknames, disk>>

(***************************************************************************)
(* Command handlers.                                                       *)
(***************************************************************************)
menu(event) ==
  Finish(Cmd("menu", event, NoArgs), Rep("menu"), scopes, nicknames, "none")

\* the longest nickname accepted
MaxNickLen == 20

set_nickname(event, nickname, w) ==
  LET c == Cmd("set_nickname", event, [nickname |-> nickname])
  IN IF nickname = <<>>
     THEN Finish(c, Rep("usage"), scopes, nicknames, "none")
     ELSE IF Len(nickname) > MaxNickLen
     THEN Finish(c, Rep("too_long"), scopes, nicknames, "none")
     ELSE Finish(c, Rep("ok"), scopes,
                 Put(nicknames, _get_sender_id(event), nickname), w)

create_teamup(event, team_size, name, scope, w) ==
  LET c == Cmd("create_teamup", event,
               [team_size |-> team_size, name |-> name, scope |-> scope])
      scope_id == _get_scope_id(event, scope)
      scs == _get_scope_state(scopes, scope_id)
  IN IF ~_has_admin_rights(event)
     THEN Finish(c, Rep("unauthorized"), scopes, nicknames, "none")
     ELSE IF ~isdigit(team_size) \/ int(team_size) <= 0
     THEN Finish(c, Rep("usage"), scopes, nicknames, "none")
     ELSE IF strip(name) = ""
     THEN Finish(c, Rep("usage"), scopes, nicknames, "none")
     ELSE IF scope_id = ""
     THEN Finish(c, Rep("noscope"), scopes, nicknames, "none")
     ELSE IF strip(name) \in DOMAIN scs[scope_id].sessions
     THEN Finish(c, Rep("conflict"), scs, nicknames, "none")
     ELSE Finish(c, Rep("ok"),
                 [scs EXCEPT ![scope_id] =
                    _create_session(@, strip(name), int(team_size),
                                    _get_sender_id(event))],
                 nicknames, w)

\* mutant of switch_teamup: active is set before the session is looked up
switch_teamup_set_first(event, name, scope, w) ==
  LET c == Cmd("switch_teamup", event, [name |-> name, scope |-> scope])
      scope_id == _get_scope_id(event, scope)
      scs == _get_scope_state(scopes, scope_id)
      set == [scs EXCEPT ![scope_id].active = strip(name)]
  IN IF strip(name) = ""
     THEN Finish(c, Rep("usage"), scopes, nicknames, "none")
     ELSE IF scope_id = ""
     THEN Finish(c, Rep("noscope"), scopes, nicknames, "none")
     ELSE IF strip(name) \notin DOMAIN scs[scope_id].sessions
     THEN Finish(c, Rep("notfound"), set, nicknames, "none")
     ELSE Finish(c, Rep("ok"), set, nicknames, w)

switch_teamup(event, name, scope, w) ==
  LET c == Cmd("switch_teamup", event, [name |-> name, scope |-> scope])
      scope_id == _get_scope_id(event, scope)
      scs == _get_scope_state(scopes, scope_id)
  IN IF strip(name) = ""
     THEN Finish(c, Rep("usage"), scopes, nicknames, "none")
     ELSE IF scope_id = ""
     THEN Finish(c, Rep("noscope"), scopes, nicknames, "none")
     ELSE IF strip(name) \notin DOMAIN scs[scope_id].sessions
     THEN Finish(c, Rep("notfound"), scs, nicknames, "none")
     ELSE Finish(c, Rep("ok"), [scs EXCEPT ![scope_id].active = strip(name)],
                 nicknames, w)

list_hall(event, scope) ==
  LET c == Cmd("list_hall", event, [scope |-> scope])
      scope_id == _get_scope_id(event, scope)
      scs == _get_scope_state(scopes, scope_id)
  IN IF scope_id = ""
     THEN Finish(c, Rep("noscope"), scopes, nicknames, "none")
     ELSE IF DOMAIN scs[scope_id].sessions = {}
     THEN Finish(c, Rep("empty"), scs, nicknames, "none")
     ELSE Finish(c, Rep("hall"), scs, nicknames, "none")

join_team(event, team_name, session_name, scope, w) ==
  LET c == Cmd("join_team", event,
               [team_name |-> team_name, session_name |-> session_name,
                scope |-> scope])
      scope_id == _get_scope_id(event, scope)
      scs == _get_scope_state(scopes, scope_id)
      ref == _get_session(scs[scope_id], strip(session_name))
      uid == _get_sender_id(event)
      removed == _remove_from_all(scs[scope_id].sessions[ref], uid)
  IN IF scope_id = ""
     THEN Finish(c, Rep("noscope"), scopes, nicknames, "none")
     ELSE IF ref = ""
     THEN Finish(c, Rep("notfound"), scs, nicknames, "none")
     ELSE IF strip(team_name) # ""
     THEN Finish(c, Rep("joined_team"),
                 WithSession(scs, scope_id, ref,
                             JoinNamedTeam(removed, strip(team_name), uid)),
                 nicknames, w)
     ELSE Finish(c, Rep("joined_free"),
                 WithSession(scs, scope_id, ref, JoinFree(removed, uid)),
                 nicknames, w)

create_team(event, team_name, session_name, scope, w) ==
  LET c == Cmd("create_team", event,
               [team_name |-> team_name, session_name |-> session_name,
                scope |-> scope])
      scope_id == _get_scope_id(event, scope)
      scs == _get_scope_state(scopes, scope_id)
      ref == _get_session(scs[scope_id], strip(session_name))
      uid == _get_sender_id(event)
      removed == _remove_from_all(scs[scope_id].sessions[ref], uid)
  IN IF strip(team_name) = ""
     THEN Finish(c, Rep("usage"), scopes, nicknames, "none")
     ELSE IF scope_id = ""
     THEN Finish(c, Rep("noscope"), scopes, nicknames, "none")
     ELSE IF ref = ""
     THEN Finish(c, Rep("notfound"), scs, nicknames, "none")
     ELSE Finish(c, Rep("joined_team"),
                 WithSession(scs, scope_id, ref,
                             JoinNamedTeam(removed, strip(team_name), uid)),
                 nicknames, w)

leave_team(event, session_name, scope, w) ==
  LET c == Cmd("leave_team", event,
               [session_name |-> session_name, scope |-> scope])
      scope_id == _get_scope_id(event, scope)
      scs == _get_scope_state(scopes, scope_id)
      ref == _get_session(scs[scope_id], strip(session_name))
      uid == _get_sender_id(event)
  IN IF scope_id = ""
     THEN Finish(c, Rep("noscope"), scopes, nicknames, "none")
     ELSE IF ref = ""
     THEN Finish(c, Rep("notfound"), scs, nicknames, "none")
     ELSE Finish(c, Rep("ok"),
                 WithSession(scs, scope_id, ref,
                   _remove_from_all(scs[scope_id].sessions[ref], uid)),
                 nicknames, w)

\* the roster list_teams prints: the title line, the teams and the free pool
list_teams(event, session_name, scope) ==
  LET c == Cmd("list_teams", event,
               [session_name |-> session_name, scope |-> scope])
      scope_id == _get_scope_id(event, scope)
      scs == _get_scope_state(scopes, scope_id)
      resolved == _get_session_name(scs[scope_id], strip(session_name))
      ref == _get_session(scs[scope_id], resolved)
      session == scs[scope_id].sessions[ref]
  IN IF scope_id = ""
     THEN Finish(c, Rep("noscope"), scopes, nicknames, "none")
     ELSE IF ref = ""
     THEN Finish(c, Rep("notfound"), scs, nicknames, "none")
     ELSE Finish(c, [Rep("roster") EXCEPT !.title = resolved,
                                          !.teams = session.teams,
                                          !.free = session.free,
                                          !.size = session.team_size],
                 scs, nicknames, "none")

my_team(event, session_name, scope) ==
  LET c == Cmd("my_team", event,
               [session_name |-> session_name, scope |-> scope])
      scope_id == _get_scope_id(event, scope)
      scs == _get_scope_state(scopes, scope_id)
      ref == _get_session(scs[scope_id], strip(session_name))
      session == scs[scope_id].sessions[ref]
      uid == _get_sender_id(event)
      found == _find_user_team(session, uid)
  IN IF scope_id = ""
     THEN Finish(c, Rep("noscope"), scopes, nicknames, "none")
     ELSE IF ref = ""
     THEN Finish(c, Rep("notfound"), scs, nicknames, "none")
     ELSE IF found.name # ""
     THEN Finish(c, [Rep("in_team") EXCEPT !.title = found.name,
                                           !.size = found.size],
                 scs, nicknames, "none")
     ELSE IF uid \in Range(session.free)
     THEN Finish(c, Rep("in_free"), scs, nicknames, "none")
     ELSE Finish(c, Rep("not_joined"), scs, nicknames, "none")

\* the lines of list_vacancy: <<team name, lack>> for every team short of
\* team_size
Vacancies(session) ==
  LET lack(t) == IF session.team_size - Len(t.members) > 0
                 THEN session.team_size - Len(t.members) ELSE 0
      short(t) == lack(t) > 0
      shorts == SelectSeq(session.teams, short)
  IN [i \in DOMAIN shorts |-> <<shorts[i].name, lack(shorts[i])>>]

list_vacancy(event, session_name, scope) ==
  LET c == Cmd("list_vacancy", event,
               [session_name |-> session_name, scope |-> scope])
      scope_id == _get_scope_id(event, scope)
      scs == _get_scope_state(scopes, scope_id)
      ref == _get_session(scs[scope_id], strip(session_name))
      lines == Vacancies(scs[scope_id].sessions[ref])
  IN IF scope_id = ""
     THEN Finish(c, Rep("noscope"), scopes, nicknames, "none")
     ELSE IF ref = ""
     THEN Finish(c, Rep("notfound"), scs, nicknames, "none")
     ELSE IF lines = <<>>
     THEN Finish(c, Rep("no_vacancy"), scs, nicknames, "none")
     ELSE Finish(c, [Rep("vacancies") EXCEPT !.lines = lines],
                 scs, nicknames, "none")

\* mutant of Chunks: a remainder shorter than team_size forms no team
RECURSIVE ChunksFullOnly(_, _, _)
ChunksFullOnly(all_members, idx, team_size) ==
  IF Len(all_members) < team_size THEN <<>>
  ELSE <<[name |-> TeamName(idx), members |-> Take(all_members, team_size)]>>
       \o ChunksFullOnly(Drop(all_members, team_size), idx + 1, team_size)

\* random_assign, mode "quanbu": cut the shuffled members into teams
\* Team1, Team2, ... of team_size
RECURSIVE Chunks(_, _, _)
Chunks(all_members, idx, team_size) ==
  IF all_members = <<>> THEN <<>>
  ELSE <<[name |-> TeamName(idx), members |-> Take(all_members, team_size)]>>
       \o Chunks(Drop(all_members, team_size), idx + 1, team_size)

\* mutant of ReshuffleAll: the free pool is left out of the candidates
ReshuffleTeamsOnly(session, shuffled) ==
  LET teamed(x) == x \in Range(TeamsFlat(session.teams))
  IN [session EXCEPT
        !.teams = Chunks(SelectSeq(shuffled, teamed), 1, session.team_size),
        !.free = <<>>]

\* random_assign, mode "quanbu", after the admin check
ReshuffleAll(session, shuffled) ==
  [session EXCEPT !.teams = Chunks(shuffled, 1, session.team_size),
                  !.free = <<>>]

\* random_assign, member mode, up to the shuffle: move the sender to free
EnterFree(session, uid) == JoinFree(_remove_from_all(session, uid), uid)

random_assign(event, mode, session_name, scope, w) ==
  LET c == Cmd("random_assign", event,
               [mode |-> mode, session_name |-> session_name,
                scope |-> scope])
      scope_id == _get_scope_id(event, scope)
      scs == _get_scope_state(scopes, scope_id)
      ref == _get_session(scs[scope_id], strip(session_name))
      session == scs[scope_id].sessions[ref]
      uid == _get_sender_id(event)
      found == _find_user_team(session, uid)
  IN IF scope_id = ""
     THEN Finish(c, Rep("noscope"), scopes, nicknames, "none")
     ELSE IF ref = ""
     THEN Finish(c, Rep("notfound"), scs, nicknames, "none")
     ELSE IF strip(mode) = "quanbu"
     THEN IF ~_has_admin_rights(event)
          THEN Finish(c, Rep("unauthorized"), scs, nicknames, "none")
          ELSE \E shuffled \in Shuffles(TeamsFlat(session.teams) \o session.free) :
                 Finish([c EXCEPT !.shuffled = shuffled], Rep("ok"),
                        WithSession(scs, scope_id, ref,
                                    ReshuffleAll(session, shuffled)),
                        nicknames, w)
     ELSE IF found.name # "" /\ found.size > 1
     THEN Finish(c, Rep("teamed"), scs, nicknames, "none")
     ELSE \E shuffled \in Shuffles(EnterFree(session, uid).free) :
            Finish([c EXCEPT !.shuffled = shuffled], Rep("ok"),
                   WithSession(scs, scope_id, ref,
                               _assign_free(EnterFree(session, uid), shuffled)),
                   nicknames, w)

\* mutant of reset_teamup: without a name the session that name-less
\* commands resolve to is removed
reset_teamup_resolved(event, session_name, scope, w) ==
  LET c == Cmd("reset_teamup", event,
               [session_name |-> session_name, scope |-> scope])
      scope_id == _get_scope_id(event, scope)
      scs == _get_scope_state(scopes, scope_id)
      ref == _get_session(scs[scope_id], strip(session_name))
  IN IF ~_has_admin_rights(event)
     THEN Finish(c, Rep("unauthorized"), scopes, nicknames, "none")
     ELSE IF scope_id = ""
     THEN Finish(c, Rep("noscope"), scopes, nicknames, "none")
     ELSE IF strip(session_name) # ""
     THEN Finish(c, Rep("ok"),
                 [scs EXCEPT ![scope_id].sessions = Pop(@, strip(session_name))],
                 nicknames, w)
     ELSE Finish(c, Rep("ok"),
                 [scs EXCEPT ![scope_id].sessions = Pop(@, ref)],
                 nicknames, w)

\* mutant of reset_teamup: the active pointer is cleared with its session
reset_teamup_clear_active(event, session_name, scope, w) ==
  LET c == Cmd("reset_teamup", event,
               [session_name |-> session_name, scope |-> scope])
      scope_id == _get_scope_id(event, scope)
      scs == _get_scope_state(scopes, scope_id)
      active == scs[scope_id].active
      name == IF strip(session_name) # "" THEN strip(session_name) ELSE active
  IN IF ~_has_admin_rights(event)
     THEN Finish(c, Rep("unauthorized"), scopes, nicknames, "none")
     ELSE IF scope_id = ""
     THEN Finish(c, Rep("noscope"), scopes, nicknames, "none")
     ELSE Finish(c, Rep("ok"),
                 [scs EXCEPT ![scope_id].sessions = Pop(@, name),
                             ![scope_id].active =
                                IF name = active THEN "" ELSE active],
                 nicknames, w)

reset_teamup(event, session_name, scope, w) ==
  LET c == Cmd("reset_teamup", event,
               [session_name |-> session_name, scope |-> scope])
      scope_id == _get_scope_id(event, scope)
      scs == _get_scope_state(scopes, scope_id)
      active == scs[scope_id].active
  IN IF ~_has_admin_rights(event)
     THEN Finish(c, Rep("unauthorized"), scopes, nicknames, "none")
     ELSE IF scope_id = ""
     THEN Finish(c, Rep("noscope"), scopes, nicknames, "none")
     ELSE IF strip(session_name) # ""
     THEN Finish(c, Rep("ok"),
                 [scs EXCEPT ![scope_id].sessions = Pop(@, strip(session_name))],
                 nicknames, w)
     ELSE IF active # ""
     THEN Finish(c, Rep("ok"),
                 [scs EXCEPT ![scope_id].sessions = Pop(@, active)],
                 nicknames, w)
     ELSE Finish(c, Rep("ok"), scs, nicknames, w)

(***************************************************************************)
(* Inputs and specifications.                                              *)
(***************************************************************************)
\* one command, or a process restart, with its inputs drawn from D
Step(D) ==
  \E sender \in D.users, group \in D.groups, role \in D.roles,
     scope \in D.scopes, w \in D.writes :
    LET event == [group |-> group, sender |-> sender, role |-> role]
    IN \/ menu(event)
       \/ \E nickname \in D.nicknames : set_nickname(event, nickname, w)
       \/ \E team_size \in D.team_sizes, name \in D.names :
            create_teamup(event, team_size, name, scope, w)
       \/ \E name \in D.names : switch_teamup(event, name, scope, w)
       \/ list_hall(event, scope)
       \/ \E team_name \in D.team_names, session_name \in D.session_names :
            join_team(event, team_name, session_name, scope, w)
       \/ \E team_name \in D.team_names, session_name \in D.session_names :
            create_team(event, team_name, session_name, scope, w)
       \/ \E session_name \in D.session_names :
            leave_team(event, session_name, scope, w)
       \/ \E session_name \in D.session_names :
            list_teams(event, session_name, scope)
       \/ \E session_name \in D.session_names :
            my_team(event, session_name, scope)
       \/ \E session_name \in D.session_names :
            list_vacancy(event, session_name, scope)
       \/ \E mode \in D.modes, session_name \in D.session_names :
            random_assign(event, mode, session_name, scope, w)
       \/ \E session_name \in D.session_names :
            reset_teamup(event, session_name, scope, w)
       \/ Restart
       \/ Return

\* one session in one group: the roster and the two random assignments
RosterInputs ==
  [users |-> Users, groups |-> {"g1"}, roles |-> {"member"},
   scopes |-> {"benqun"}, writes |-> {"ok"},
   nicknames |-> {<<>>},
   team_sizes |-> {Decimal(n) : n \in 1..MaxTeamSize},
   names |-> {"A"}, session_names |-> {""},
   team_names |-> {"", "Red", "Team1"},
   modes |-> {"", "quanbu"}]

Next == Step(RosterInputs)

Spec == Init /\ [][Next]_vars

\* one administrator and up to three sessions in one group: the session store
StoreInputs ==
  [users |-> {"u1"}, groups |-> {"g1"}, roles |-> {"member"},
   scopes |-> {"benqun"}, writes |-> {"ok"},
   nicknames |-> {<<>>},
   team_sizes |-> {Decimal(0), Decimal(1), Decimal(MaxTeamSize)},
   names |-> SessionNames, session_names |-> SessionNames \cup {""},
   team_names |-> {"", "Red"},
   modes |-> {"", "quanbu"}]

NextStore == Step(StoreInputs)

SpecStore == Init /\ [][NextStore]_vars

\* one sender who is an administrator by role only, two session names in
\* one group: who may do what
AccessInputs ==
  [users |-> {"u2"}, groups |-> {"g1"}, roles |-> {"member", "admin"},
   scopes |-> {"benqun"}, writes |-> {"ok"},
   nicknames |-> {<<>>},
   team_sizes |-> {Decimal(0), Decimal(MaxTeamSize)},
   names |-> {"A", "B"}, session_names |-> {"", "A", "B"},
   team_names |-> {"", "Red"},
   modes |-> {"", "quanbu"}]

NextAccess == Step(AccessInputs)

SpecAccess == Init /\ [][NextAccess]_vars

\* one sender in two groups and in private chat, both scope keywords, a
\* nickname that fits and one that is too long: which scope a command acts on
ScopeInputs ==
  [users |-> {"u2"}, groups |-> {"g1", "g2", ""}, roles |-> {"member", "admin"},
   scopes |-> {"benqun", "kuaqun"}, writes |-> {"ok"},
   nicknames |-> {<<>>, <<"n">>, [i \in 1..(MaxNickLen + 1) |-> "x"]},
   team_sizes |-> {Decimal(0), Decimal(MaxTeamSize)},
   names |-> {"A"}, session_names |-> {""},
   team_names |-> {"", "Red"},
   modes |-> {"", "quanbu"}]

NextScope == Step(ScopeInputs)

SpecScope == Init /\ [][NextScope]_vars

\* one administrator, one session, a nickname, and writes that succeed, fail
\* before the file is opened, or fail after it was opened for writing: what
\* a restart finds
DiskInputs ==
  [users |-> {"u1"}, groups |-> {"g1"}, roles |-> {"member"},
   scopes |-> {"benqun"}, writes |-> {"ok", "failed", "truncated"},
   nicknames |-> {<<>>, <<"n">>},
   team_sizes |-> {Decimal(0), Decimal(MaxTeamSize)},
   names |-> {"A"}, session_names |-> {""},
   team_names |-> {"", "Red"},
   modes |-> {"", "quanbu"}]

NextDisk == Step(DiskInputs)

SpecDisk == Init /\ [][NextDisk]_vars

\* every command but random_assign: the rosters are built by explicit joins
\* alone
StepJoins(D) ==
  \/ \E sender \in D.users, group \in D.groups, role \in D.roles,
        scope \in D.scopes, w \in D.writes :
       LET event == [group |-> group, sender |-> sender, role |-> role]
       IN \/ menu(event)
          \/ \E nickname \in D.nicknames : set_nickname(event, nickname, w)
          \/ \E team_size \in D.team_sizes, name \in D.names :
               create_teamup(event, team_size, name, scope, w)
          \/ \E name \in D.names : switch_teamup(event, name, scope, w)
          \/ list_hall(event, scope)
          \/ \E team_name \in D.team_names, session_name \in D.session_names :
               join_team(event, team_name, session_name, scope, w)
          \/ \E team_name \in D.team_names, session_name \in D.session_names :
               create_team(event, team_name, session_name, scope, w)
          \/ \E session_name \in D.session_names :
               leave_team(event, session_name, scope, w)
          \/ \E session_name \in D.session_names :
               list_teams(event, session_name, scope)
          \/ \E session_name \in D.session_names :
               my_team(event, session_name, scope)
          \/ \E session_name \in D.session_names :
               list_vacancy(event, session_name, scope)
          \/ \E session_name \in D.session_names :
               reset_teamup(event, session_name, scope, w)
  \/ Restart
  \/ Return

\* three users and two sessions in one group: what one user's join or leave
\* does to the others
FrameInputs ==
  [users |-> Users, groups |-> {"g1"}, roles |-> {"member"},
   scopes |-> {"benqun"}, writes |-> {"ok"},
   nicknames |-> {<<>>},
   team_sizes |-> {Decimal(MaxTeamSize)},
   names |-> {"A", "B"}, session_names |-> {"", "B"},
   team_names |-> {"", "Red"}]

NextFrame == StepJoins(FrameInputs)

SpecFrame == Init /\ [][NextFrame]_vars

(***************************************************************************)
(* Commands as they are typed.  The words after the command name fill the *)
(* parameters of the handler in order; a parameter with no word keeps the *)
(* default of the signature.  No handler calls _parse_scope.              *)
(***************************************************************************)
Bind(tokens, defaults) ==
  [i \in DOMAIN defaults |-> IF i <= Len(tokens) THEN tokens[i] ELSE defaults[i]]

\* the characters of a word as far as create_teamup looks at them: a one
\* digit word is that digit, any other word is not all digits
text(token) ==
  IF token = "" THEN <<>>
  ELSE IF token \in Range(DigitChars) THEN <<token>>
  ELSE <<"x">>

\* the commands that take a scope, each with a message that has no more
\* words than the handler has parameters
Dispatch(D) ==
  \/ \E sender \in D.users, group \in D.groups, role \in D.roles,
        tokens \in D.messages, w \in D.writes :
       LET event == [group |-> group, sender |-> sender, role |-> role,
                     tokens |-> tokens]
           one == Bind(tokens, <<"benqun">>)
           two == Bind(tokens, <<"", "benqun">>)
           three == Bind(tokens, <<"", "", "benqun">>)
       IN \/ /\ Len(tokens) = 0
             /\ menu(event)
          \/ /\ Len(tokens) <= 3
             /\ create_teamup(event, text(three[1]), three[2], three[3], w)
          \/ /\ Len(tokens) <= 2
             /\ switch_teamup(event, two[1], two[2], w)
          \/ /\ Len(tokens) <= 1
             /\ list_hall(event, one[1])
          \/ /\ Len(tokens) <= 3
             /\ join_team(event, three[1], three[2], three[3], w)
          \/ /\ Len(tokens) <= 3
             /\ create_team(event, three[1], three[2], three[3], w)
          \/ /\ Len(tokens) <= 2
             /\ leave_team(event, two[1], two[2], w)
          \/ /\ Len(tokens) <= 2
             /\ list_teams(event, two[1], two[2])
          \/ /\ Len(tokens) <= 2
             /\ my_team(event, two[1], two[2])
          \/ /\ Len(tokens) <= 2
             /\ list_vacancy(event, two[1], two[2])
          \/ /\ Len(tokens) <= 3
             /\ random_assign(event, three[1], three[2], three[3], w)
          \/ /\ Len(tokens) <= 2
             /\ reset_teamup(event, two[1], two[2], w)
  \/ Restart
  \/ Return

\* one administrator in one group typing the session, team, mode and scope
\* words in the places the usage strings give them, and the scope word alone
TokenInputs ==
  [users |-> {"u1"}, groups |-> {"g1"}, roles |-> {"member"},
   writes |-> {"ok"},
   messages |-> {<<>>, <<"kuaqun">>, <<"A">>, <<"Red">>, <<"quanbu">>,
                 <<"2", "A">>, <<"A", "kuaqun">>, <<"Red", "A">>,
                 <<"2", "A", "kuaqun">>, <<"Red", "A", "kuaqun">>}]

NextToken == Dispatch(TokenInputs)

SpecToken == Init /\ [][NextToken]_vars

(***************************************************************************)
(* Vocabulary of the properties.                                           *)
(***************************************************************************)
\* how often x occurs in seq
Count(x, seq) == Cardinality({i \in DOMAIN seq : seq[i] = x})

\* every user id a session holds: all teams, then the free pool
Held(session) == TeamsFlat(session.teams) \o session.free

TeamNamesOf(session) == {session.teams[i].name : i \in DOMAIN session.teams}

\* the team of that name, as its member list; <<>> when there is none
MembersOf(session, name) ==
  IF HasTeam(session.teams, name) THEN TeamMembers(session.teams, name)
  ELSE <<>>

\* the teams (by name) that hold x
TeamsHolding(session, x) ==
  {session.teams[i].name : i \in
     {j \in DOMAIN session.teams : x \in Range(session.teams[j].members)}}

\* the session the last command addressed, before and after it
TargetScope == _get_scope_id(cmd.event, cmd.scope)

PreScope == _get_scope_state(pre.scopes, TargetScope)[TargetScope]

TargetRef == _get_session(PreScope, strip(cmd.session_name))

PreSession == PreScope.sessions[TargetRef]

PostSession == scopes[TargetScope].sessions[TargetRef]

\* the last command was a member-mode / full random_assign that went through
PartialDone ==
  cmd.handler = "random_assign" /\ strip(cmd.mode) # "quanbu" /\ reply.kind = "ok"

FullDone ==
  cmd.handler = "random_assign" /\ strip(cmd.mode) = "quanbu" /\ reply.kind = "ok"

(***************************************************************************)
(* C1. Within a session every user id occurs at most once, counting the    *)
(* free list and every team's member list together, in every reachable     *)
(* state.                                                                  *)
(***************************************************************************)
C1_AtMostOnePlacement ==
  \A sid \in DOMAIN scopes : \A k \in DOMAIN scopes[sid].sessions :
    \A u \in Users : Count(u, Held(scopes[sid].sessions[k])) <= 1

\* a user who sat in one team has joined another team
C1_Witness ==
  /\ cmd.handler = "join_team" /\ reply.kind = "joined_team"
  /\ TeamsHolding(PreSession, cmd.event.sender) # {}
  /\ strip(cmd.team_name) \notin TeamsHolding(PreSession, cmd.event.sender)
  /\ Len(MembersOf(PreSession, strip(cmd.team_name))) >= 1
  /\ Len(PreSession.free) >= 1

(***************************************************************************)
(* C7. No session ever holds a team with zero members.                     *)
(***************************************************************************)
C7_NoEmptyTeam ==
  \A sid \in DOMAIN scopes : \A k \in DOMAIN scopes[sid].sessions :
    \A i \in DOMAIN scopes[sid].sessions[k].teams :
      scopes[sid].sessions[k].teams[i].members # <<>>

\* the sole member of a team has left, and the team is gone while another
\* team stays
C7_Witness ==
  /\ cmd.handler = "leave_team" /\ reply.kind = "ok"
  /\ \E t \in TeamNamesOf(PreSession) :
       /\ MembersOf(PreSession, t) = <<cmd.event.sender>>
       /\ t \notin TeamNamesOf(PostSession)
  /\ PostSession.teams # <<>>

(***************************************************************************)
(* C2. After a member-mode random_assign that went through: every user of  *)
(* the former free pool, and the requester, is in exactly one team; the    *)
(* free pool is empty; every other former team member is still in the same *)
(* team, once, and the former members of a team keep their relative order  *)
(* (so no team is overwritten by a newly opened one).                      *)
(***************************************************************************)
C2_PartialConservation ==
  PartialDone =>
    LET u == cmd.event.sender
        S0 == PreSession
        S1 == PostSession
    IN /\ S1.free = <<>>
       /\ \A x \in Range(S0.free) \cup {u} :
            /\ Count(x, TeamsFlat(S1.teams)) = 1
            /\ Cardinality(TeamsHolding(S1, x)) = 1
       /\ \A i \in DOMAIN S0.teams :
            LET t == S0.teams[i]
                other(x) == x # u
                stay == SelectSeq(t.members, other)
                stayed(x) == x \in Range(stay)
            IN /\ \A x \in Range(stay) :
                    /\ TeamsHolding(S1, x) = {t.name}
                    /\ Count(x, TeamsFlat(S1.teams)) = 1
               /\ SelectSeq(MembersOf(S1, t.name), stayed) = stay

\* a team named Team1 existed, the free pool held somebody else, and the
\* command opened Team2 beside it
C2_Witness ==
  /\ PartialDone
  /\ HasTeam(PreSession.teams, "Team1")
  /\ cmd.event.sender \notin Range(MembersOf(PreSession, "Team1"))
  /\ ~HasTeam(PreSession.teams, "Team2")
  /\ HasTeam(PostSession.teams, "Team2")
  /\ Range(PreSession.free) \ {cmd.event.sender} # {}

(***************************************************************************)
(* C3. A full random_assign keeps the multiset of user ids: what the teams *)
(* and the free pool held before is what the teams hold after, and the     *)
(* free pool is empty.                                                     *)
(***************************************************************************)
C3_FullConservation ==
  FullDone =>
    /\ PostSession.free = <<>>
    /\ \A u \in Users :
         Count(u, Held(PreSession)) = Count(u, TeamsFlat(PostSession.teams))
    /\ Range(TeamsFlat(PostSession.teams)) \subseteq Users

\* three users, some in teams and some free, were reshuffled
C3_Witness ==
  /\ FullDone
  /\ Len(Held(PreSession)) = 3
  /\ PreSession.free # <<>>
  /\ PreSession.teams # <<>>
  /\ PostSession.teams # PreSession.teams

(***************************************************************************)
(* C4. After a full random_assign of n users with team size s there are    *)
(* exactly ceil(n/s) teams, named Team1..Teamk in this order; all but the  *)
(* last hold s members, the last between 1 and s; a former team survives   *)
(* only under one of these names.  n = 2, s = 3 gives one team Team1 of 2. *)
(***************************************************************************)
C4_FullPartition ==
  FullDone =>
    LET n == Len(Held(PreSession))
        s == PreSession.team_size
        k == (n + s - 1) \div s
        T == PostSession.teams
    IN /\ Len(T) = k
       /\ \A i \in 1..k : T[i].name = "Team" \o ToString(i)
       /\ \A i \in 1..(k - 1) : Len(T[i].members) = s
       /\ k >= 1 => Len(T[k].members) \in 1..s
       /\ \A t \in TeamNamesOf(PreSession) \cap TeamNamesOf(PostSession) :
            t \in {"Team" \o ToString(i) : i \in 1..k}
       /\ (n = 2 /\ s = 3) =>
            /\ Len(T) = 1
            /\ T[1].name = "Team1"
            /\ Len(T[1].members) = 2

\* two users, one of them in a team Red, team size 3
C4_Witness ==
  /\ FullDone
  /\ Len(Held(PreSession)) = 2
  /\ PreSession.team_size = 3
  /\ HasTeam(PreSession.teams, "Red")

(***************************************************************************)
(* C5. With f the order the shuffle left the free pool in, the top-up      *)
(* hands f out from its front to the teams in enumeration order, each team *)
(* short of team_size being filled up to it before the next; new teams     *)
(* come only once every former team holds team_size or more, they take the *)
(* rest of f in order, and only the last of them may be short.             *)
(***************************************************************************)
C5_TopUpOrder ==
  PartialDone =>
    LET s == PreSession.team_size
        T0 == EnterFree(PreSession, cmd.event.sender).teams
        f == cmd.shuffled
        T1 == PostSession.teams
        m == Len(T0)
        room(i) == IF Len(T0[i].members) < s THEN s - Len(T0[i].members) ELSE 0
        \* how many of f the first i teams have taken
        given[i \in 0..m] ==
          IF i = 0 THEN 0
          ELSE IF given[i - 1] + room(i) < Len(f)
               THEN given[i - 1] + room(i) ELSE Len(f)
        fresh == SubSeq(T1, m + 1, Len(T1))
    IN /\ Len(T1) >= m
       /\ \A i \in 1..m :
            /\ T1[i].name = T0[i].name
            /\ T1[i].members =
                 T0[i].members \o SubSeq(f, given[i - 1] + 1, given[i])
       /\ fresh # <<>> => \A i \in 1..m : Len(T1[i].members) >= s
       /\ \A j \in 1..(Len(fresh) - 1) : Len(fresh[j].members) = s
       /\ fresh # <<>> => Len(fresh[Len(fresh)].members) \in 1..s
       /\ TeamsFlat(fresh) = SubSeq(f, given[m] + 1, Len(f))
       /\ \A j \in DOMAIN fresh : ~HasTeam(T0, fresh[j].name)

\* two teams were both short of team_size when the free pool was handed out
C5_Witness ==
  /\ PartialDone
  /\ LET T0 == EnterFree(PreSession, cmd.event.sender).teams
     IN /\ Len(T0) >= 2
        /\ Len(T0[1].members) < PreSession.team_size
        /\ Len(T0[2].members) < PreSession.team_size
        /\ Len(PostSession.teams[1].members) > Len(T0[1].members)

(***************************************************************************)
(* C6. A member-mode random_assign by a user who is in a team of two or    *)
(* more is answered "already teamed" and leaves the session as it was; a   *)
(* requester alone in a team, in the free pool or absent is not answered   *)
(* so.                                                                     *)
(***************************************************************************)
C6_TeamedRejected ==
  (/\ cmd.handler = "random_assign"
   /\ strip(cmd.mode) # "quanbu"
   /\ reply.kind \notin {"noscope", "notfound"}) =>
    LET u == cmd.event.sender
        teamed == \E i \in DOMAIN PreSession.teams :
                    /\ u \in Range(PreSession.teams[i].members)
                    /\ Len(PreSession.teams[i].members) >= 2
    IN /\ teamed => /\ reply.kind = "teamed"
                    /\ PostSession = PreSession
                    /\ scopes = pre.scopes
       /\ ~teamed => reply.kind # "teamed"

\* the rejected requester sat in a team while somebody waited in the free pool
C6_Witness ==
  /\ cmd.handler = "random_assign"
  /\ reply.kind = "teamed"
  /\ PreSession.free # <<>>
  /\ Len(MembersOf(PreSession, _find_user_team(PreSession, cmd.event.sender).name)) >= 2

(***************************************************************************)
(* C8. Session resolution: a non-empty name gives the session of that name *)
(* or nothing; without a name, the active session if active names one,     *)
(* else the only session of the scope, else nothing.  _get_session and     *)
(* _get_session_name give the same answer, and the commands act on it.     *)
(***************************************************************************)
\* the session the precedence rules name, "" for not found
Resolved(scope_state, name) ==
  LET present == DOMAIN scope_state.sessions
  IN CASE name # "" /\ name \in present -> name
       [] name # "" /\ name \notin present -> ""
       [] name = "" /\ scope_state.active \in present -> scope_state.active
       [] name = "" /\ scope_state.active \notin present
            /\ Cardinality(present) = 1 -> CHOOSE k \in present : TRUE
       [] OTHER -> ""

\* the handlers that resolve their session with _get_session alone
SessionCommands ==
  {"join_team", "create_team", "leave_team", "my_team", "list_vacancy",
   "random_assign"}

C8_Resolution ==
  /\ \A sid \in DOMAIN scopes : \A name \in SessionNames \cup {""} :
       /\ _get_session(scopes[sid], name) = Resolved(scopes[sid], name)
       /\ _get_session_name(scopes[sid], name) = Resolved(scopes[sid], name)
  /\ (/\ cmd.handler \in SessionCommands
      /\ reply.kind \notin {"noscope", "usage"}) =>
       LET target == Resolved(PreScope, strip(cmd.session_name))
       IN /\ reply.kind = "notfound" <=> target = ""
          /\ \A k \in DOMAIN PreScope.sessions :
               k # target =>
                 /\ k \in DOMAIN scopes[TargetScope].sessions
                 /\ scopes[TargetScope].sessions[k] = PreScope.sessions[k]

\* a command without a session name found nothing in a scope of two
\* sessions whose active pointer names a removed session
C8_Witness ==
  /\ cmd.handler = "join_team"
  /\ strip(cmd.session_name) = ""
  /\ reply.kind = "notfound"
  /\ Cardinality(DOMAIN PreScope.sessions) = 2
  /\ PreScope.active # ""

(***************************************************************************)
(* C9. Every command with an optional session name answers not-found when  *)
(* a non-empty name is given that is no session of the scope; it never     *)
(* falls back to the active or the only session (create_team being given   *)
(* the team name it requires).                                             *)
(***************************************************************************)
C9_NamedNotFound ==
  (/\ cmd.handler \in SessionCommands \cup {"list_teams"}
   /\ cmd.handler = "create_team" => strip(cmd.team_name) # ""
   /\ TargetScope # ""
   /\ strip(cmd.session_name) # ""
   /\ strip(cmd.session_name) \notin DOMAIN PreScope.sessions) =>
    reply.kind = "notfound"

(***************************************************************************)
(* C10. create_teamup by an administrator: a name already in the scope is  *)
(* refused and the whole state stays as it was; a new name with a team     *)
(* size >= 1 adds a session of that size with no teams, an empty free pool *)
(* and the sender as creator, makes it active and leaves the other         *)
(* sessions alone, so that a command without a name resolves to it.        *)
(***************************************************************************)
C10_CreateSession ==
  (/\ cmd.handler = "create_teamup"
   /\ _has_admin_rights(cmd.event)
   /\ TargetScope # ""
   /\ strip(cmd.name) # "") =>
    LET name == strip(cmd.name)
        valid == isdigit(cmd.team_size) /\ int(cmd.team_size) >= 1
    IN IF name \in DOMAIN PreScope.sessions
       THEN /\ reply.kind \in {"conflict", "usage"}
            /\ valid => reply.kind = "conflict"
            /\ scopes = pre.scopes
            /\ scopes[TargetScope].sessions[name] = PreScope.sessions[name]
            /\ scopes[TargetScope].active = PreScope.active
       ELSE valid =>
            /\ reply.kind = "ok"
            /\ DOMAIN scopes[TargetScope].sessions =
                 DOMAIN PreScope.sessions \cup {name}
            /\ scopes[TargetScope].sessions[name] =
                 [team_size |-> int(cmd.team_size), teams |-> <<>>,
                  free |-> <<>>, created_by |-> cmd.event.sender]
            /\ scopes[TargetScope].sessions[name].team_size >= 1
            /\ scopes[TargetScope].active = name
            /\ \A k \in DOMAIN PreScope.sessions :
                 scopes[TargetScope].sessions[k] = PreScope.sessions[k]
            /\ \A sid \in DOMAIN pre.scopes \ {TargetScope} :
                 scopes[sid] = pre.scopes[sid]
            /\ _get_session(scopes[TargetScope], "") = name
            /\ _get_session_name(scopes[TargetScope], "") = name

\* a session holding a team was asked for again, with another team size,
\* while another session was the active one
C10_Witness ==
  /\ cmd.handler = "create_teamup"
  /\ reply.kind = "conflict"
  /\ PreScope.sessions[strip(cmd.name)].teams # <<>>
  /\ PreScope.sessions[strip(cmd.name)].team_size # int(cmd.team_size)
  /\ PreScope.active # strip(cmd.name)

(***************************************************************************)
(* More vocabulary: scopes with no stored entry count as empty scopes.     *)
(***************************************************************************)
\* the scope state stored for sid, the empty one when there is no entry
ScopeOf(scs, sid) == IF sid \in DOMAIN scs THEN scs[sid] ELSE EmptyScope

\* scs and old hold the same sessions and active pointers
SameScopes(scs, old) ==
  \A sid \in DOMAIN scs \cup DOMAIN old : ScopeOf(scs, sid) = ScopeOf(old, sid)

\* the sender of the last command has no admin rights: not a configured
\* super-admin, no owner/admin role
NonAdmin == cmd.event.sender \notin {"u1"} /\ cmd.event.role \notin {"owner", "admin"}

(***************************************************************************)
(* C11. A sender without admin rights can neither create nor remove a      *)
(* session nor trigger a full reshuffle: create_teamup, reset_teamup and   *)
(* random_assign in mode "quanbu" by such a sender are rejected and leave  *)
(* every session, team and free pool unchanged.                            *)
(***************************************************************************)
C11_AdminOnly ==
  (/\ NonAdmin
   /\ \/ cmd.handler \in {"create_teamup", "reset_teamup"}
      \/ cmd.handler = "random_assign" /\ strip(cmd.mode) = "quanbu") =>
    /\ reply.kind \in {"unauthorized", "notfound", "noscope"}
    /\ cmd.handler \in {"create_teamup", "reset_teamup"} =>
         reply.kind = "unauthorized"
    /\ SameScopes(scopes, pre.scopes)
    /\ disk.kind = "json" => SameScopes(disk.scopes, pre.scopes)

\* a member asked to reset a session that holds a team, and was refused
C11_Witness ==
  /\ cmd.handler = "reset_teamup"
  /\ NonAdmin
  /\ reply.kind = "unauthorized"
  /\ strip(cmd.session_name) \in DOMAIN PreScope.sessions
  /\ PreScope.sessions[strip(cmd.session_name)].teams # <<>>

(***************************************************************************)
(* C15. switch_teamup is an administrator command (the menu lists it under *)
(* the administrator heading): a sender without admin rights cannot change *)
(* the active pointer of a scope with it.                                  *)
(***************************************************************************)
C15_SwitchAdminOnly ==
  (cmd.handler = "switch_teamup" /\ NonAdmin) =>
    \A sid \in DOMAIN scopes \cup DOMAIN pre.scopes :
      ScopeOf(scopes, sid).active = ScopeOf(pre.scopes, sid).active

(***************************************************************************)
(* C17. Leaving is idempotent: leave_team twice in a row by the same user  *)
(* leaves the session (teams, member order, free list) as leaving once     *)
(* does, and leave_team by a user who is not in the session changes        *)
(* nothing.                                                                *)
(***************************************************************************)
C17_LeaveIdempotent ==
  /\ (cmd.handler = "leave_team" /\ reply.kind = "ok") =>
       \* after a leave the sender is nowhere in the session, so that the
       \* next leave is a leave by a user who is not in it ...
       /\ cmd.event.sender \notin Range(Held(PostSession))
       \* ... and such a leave changes nothing
       /\ cmd.event.sender \notin Range(Held(PreSession)) =>
            /\ PostSession = PreSession
            /\ SameScopes(scopes, pre.scopes)
  /\ \A sid \in DOMAIN scopes : \A n \in DOMAIN scopes[sid].sessions :
       \A u \in Users :
         LET session == scopes[sid].sessions[n]
             once == _remove_from_all(session, u)
         IN /\ _remove_from_all(once, u) = once
            /\ u \notin Range(Held(session)) => once = session

\* a user who is in no team and not in free sent leave to a session that
\* holds a team and a free user
C17_Witness ==
  /\ cmd.handler = "leave_team"
  /\ reply.kind = "ok"
  /\ cmd.event.sender \notin Range(Held(PreSession))
  /\ PreSession.teams # <<>>
  /\ PreSession.free # <<>>

(***************************************************************************)
(* C20. Only explicit joins exceed the capacity: join_team and create_team *)
(* succeed whatever the size of the team, but a random_assign never adds a *)
(* member to a team that has team_size or more members, never makes a team *)
(* of more than team_size members, and after a full reshuffle every team   *)
(* has at most team_size members.                                          *)
(***************************************************************************)
C20_Capacity ==
  /\ (/\ cmd.handler \in {"join_team", "create_team"}
      /\ strip(cmd.team_name) # ""
      /\ TargetScope # ""
      /\ TargetRef # "") =>
       /\ reply.kind = "joined_team"
       /\ cmd.event.sender \in Range(MembersOf(PostSession, strip(cmd.team_name)))
  /\ PartialDone =>
       \* the assignment step starts from the session with the sender moved
       \* to free (a team the sender held alone is gone by then)
       LET entered == EnterFree(PreSession, cmd.event.sender)
       IN \A t \in TeamNamesOf(PostSession) :
            LET before == MembersOf(entered, t)
                after == MembersOf(PostSession, t)
            IN /\ Len(before) >= PreSession.team_size => after = before
               /\ Len(before) < PreSession.team_size =>
                    Len(after) <= PreSession.team_size
  /\ FullDone =>
       \A t \in TeamNamesOf(PostSession) :
         Len(MembersOf(PostSession, t)) <= PreSession.team_size

\* a team held more members than team_size (by explicit joins); a random
\* assignment left it alone and opened a new team for the sender
C20_Witness ==
  /\ PartialDone
  /\ \E t \in TeamNamesOf(PreSession) :
       /\ Len(MembersOf(PreSession, t)) > PreSession.team_size
       /\ MembersOf(PostSession, t) = MembersOf(PreSession, t)
  /\ Len(PostSession.teams) > Len(PreSession.teams)

(***************************************************************************)
(* C18. reset_teamup without a session name removes exactly the session    *)
(* the active pointer names and nothing else; it removes nothing when      *)
(* active is empty or names no session, even if the scope holds exactly    *)
(* one session.  With a name it removes only that session (nothing if      *)
(* there is none).  It never changes active nor any other session.         *)
(***************************************************************************)
\* the scope the last command addressed, after it
PostScope == ScopeOf(scopes, TargetScope)

\* the last command was a reset_teamup that went through
ResetDone == cmd.handler = "reset_teamup" /\ reply.kind = "ok"

C18_ResetFrame ==
  ResetDone =>
    LET name == strip(cmd.session_name)
        before == PreScope.sessions
        after == PostScope.sessions
        gone == IF name # "" THEN {name} ELSE {PreScope.active}
    IN /\ DOMAIN after = DOMAIN before \ gone
       /\ \A n \in DOMAIN after : after[n] = before[n]
       /\ (name = "" /\ PreScope.active \notin DOMAIN before) => after = before
       /\ PostScope.active = PreScope.active
       /\ \A sid \in (DOMAIN scopes \cup DOMAIN pre.scopes) \ {TargetScope} :
            ScopeOf(scopes, sid) = ScopeOf(pre.scopes, sid)

\* a name-less reset in a scope whose active pointer names a removed
\* session and which holds exactly one session: that session stays
C18_Witness ==
  /\ ResetDone
  /\ strip(cmd.session_name) = ""
  /\ PreScope.active # ""
  /\ PreScope.active \notin DOMAIN PreScope.sessions
  /\ Cardinality(DOMAIN PreScope.sessions) = 1
  /\ PostScope.sessions = PreScope.sessions

(***************************************************************************)
(* C19. After reset_teamup removed the session active names, active still  *)
(* holds the removed name; from then until a create_teamup or a            *)
(* switch_teamup succeeds in the scope, a command without a session name   *)
(* finds nothing whenever the scope holds zero or at least two sessions    *)
(* and resolves to the only session whenever it holds exactly one.         *)
(***************************************************************************)
\* active names a session that is not there
Dangling(scope_state) ==
  scope_state.active # "" /\ scope_state.active \notin DOMAIN scope_state.sessions

C19_DanglingActive ==
  \* the reset leaves active at the removed name
  /\ (/\ ResetDone
      /\ PreScope.active \in DOMAIN PreScope.sessions
      /\ PreScope.active \notin DOMAIN PostScope.sessions) =>
       PostScope.active = PreScope.active /\ Dangling(PostScope)
  \* it stays there until create_teamup or switch_teamup succeeds
  /\ \A sid \in DOMAIN pre.scopes :
       (/\ Dangling(pre.scopes[sid])
        /\ ~(/\ cmd.handler \in {"create_teamup", "switch_teamup"}
             /\ reply.kind = "ok"
             /\ TargetScope = sid)) =>
         /\ ScopeOf(scopes, sid).active = pre.scopes[sid].active
         /\ Dangling(ScopeOf(scopes, sid))
  \* meanwhile name-less commands resolve by the number of sessions
  /\ (/\ cmd.handler \in SessionCommands \cup {"list_teams"}
      /\ cmd.handler = "create_team" => strip(cmd.team_name) # ""
      /\ strip(cmd.session_name) = ""
      /\ TargetScope # ""
      /\ Dangling(PreScope)) =>
       IF Cardinality(DOMAIN PreScope.sessions) = 1
       THEN /\ reply.kind # "notfound"
            /\ TargetRef \in DOMAIN PreScope.sessions
            /\ cmd.handler = "list_teams" =>
                 /\ reply.title \in DOMAIN PreScope.sessions
                 /\ reply.teams = PreScope.sessions[reply.title].teams
                 /\ reply.free = PreScope.sessions[reply.title].free
       ELSE reply.kind = "notfound"

\* the roster asked without a name, in a scope whose active session was
\* removed and which holds one other session, is that session's roster
C19_Witness ==
  /\ cmd.handler = "list_teams"
  /\ strip(cmd.session_name) = ""
  /\ Dangling(PreScope)
  /\ Cardinality(DOMAIN PreScope.sessions) = 1
  /\ reply.kind = "roster"
  /\ reply.title \in DOMAIN PreScope.sessions
  /\ reply.free # <<>>

(***************************************************************************)
(* C12. Scope isolation: a command addressed with the cross-group keyword  *)
(* reads and changes only the global scope whatever the chat, a command    *)
(* addressed to this group (keyword or none) from group G reads and        *)
(* changes only the scope of G; the sessions and active pointer of every   *)
(* other scope are unchanged, so that sessions of one name in two scopes   *)
(* evolve independently.                                                   *)
(***************************************************************************)
\* the scope the last command was addressed to; "" when it names this
\* group outside a group
Addressed ==
  IF cmd.scope = "kuaqun" THEN "global"
  ELSE IF cmd.event.group = "" THEN ""
  ELSE "group:" \o cmd.event.group

C12_ScopeIsolation ==
  cmd.handler \notin {"idle", "__init__"} =>
    \* every other scope is as it was
    /\ \A sid \in (DOMAIN scopes \cup DOMAIN pre.scopes) \ {Addressed} :
         /\ sid \in DOMAIN scopes
         /\ sid \in DOMAIN pre.scopes
         /\ scopes[sid] = pre.scopes[sid]
    \* what a command shows is in the addressed scope
    /\ cmd.handler = "list_hall" =>
         reply.kind = IF Addressed = "" THEN "noscope"
                      ELSE IF DOMAIN ScopeOf(pre.scopes, Addressed).sessions = {}
                      THEN "empty" ELSE "hall"
    /\ reply.kind = "roster" =>
         /\ reply.title \in DOMAIN ScopeOf(pre.scopes, Addressed).sessions
         /\ reply.teams = pre.scopes[Addressed].sessions[reply.title].teams
         /\ reply.free = pre.scopes[Addressed].sessions[reply.title].free
    /\ (/\ cmd.handler \in SessionCommands
        /\ cmd.handler = "create_team" => strip(cmd.team_name) # "") =>
         (reply.kind = "notfound") =
            (Addressed # "" /\ Resolved(ScopeOf(pre.scopes, Addressed), "") = "")
    \* what a command changes is in the addressed scope
    /\ reply.kind \in {"joined_free", "joined_team"} =>
         \E n \in DOMAIN scopes[Addressed].sessions :
           /\ cmd.event.sender \in Range(Held(scopes[Addressed].sessions[n]))
           /\ cmd.event.sender \notin
                Range(Held(_remove_from_all(pre.scopes[Addressed].sessions[n],
                                            cmd.event.sender)))
    /\ (cmd.handler = "create_teamup" /\ reply.kind = "ok") =>
         strip(cmd.name) \in DOMAIN scopes[Addressed].sessions

\* the global scope and the scope of g1 both hold a session A; a join sent
\* from g1 with the cross-group keyword entered the free list of the global
\* one, the sender staying in a team of the one of g1
C12_Witness ==
  /\ cmd.handler = "join_team"
  /\ cmd.scope = "kuaqun"
  /\ cmd.event.group = "g1"
  /\ reply.kind = "joined_free"
  /\ "group:g1" \in DOMAIN scopes
  /\ "A" \in DOMAIN scopes["group:g1"].sessions
  /\ scopes["group:g1"].sessions["A"].teams # <<>>
  /\ scopes["global"].sessions["A"].free = <<cmd.event.sender>>
  /\ pre.scopes["global"].sessions["A"].free = <<>>

(***************************************************************************)
(* C13. A command that ends in an error response (usage or invalid         *)
(* argument, session not found, unauthorized, this group asked outside a   *)
(* group, session name conflict) leaves the sessions and active pointer of *)
(* every scope and the nicknames exactly as before, a scope with no entry  *)
(* counting as empty; in particular switch_teamup to a name that is no     *)
(* session of the scope leaves active unchanged.                           *)
(***************************************************************************)
ErrorKinds ==
  {"usage", "too_long", "notfound", "unauthorized", "noscope", "conflict"}

C13_ErrorsChangeNothing ==
  /\ reply.kind \in ErrorKinds =>
       /\ SameScopes(scopes, pre.scopes)
       /\ nicknames = pre.nicknames
       /\ cmd.write = "none"
  /\ (/\ cmd.handler = "switch_teamup"
      /\ strip(cmd.name) \notin DOMAIN ScopeOf(pre.scopes, Addressed).sessions) =>
       /\ reply.kind \in ErrorKinds
       /\ \A sid \in DOMAIN scopes \cup DOMAIN pre.scopes :
            ScopeOf(scopes, sid).active = ScopeOf(pre.scopes, sid).active

\* switch_teamup to A in a scope that has no entry yet, while another scope
\* holds a session A: not found, and the scope has an empty entry now
C13_Witness ==
  /\ cmd.handler = "switch_teamup"
  /\ strip(cmd.name) = "A"
  /\ reply.kind = "notfound"
  /\ Addressed \notin DOMAIN pre.scopes
  /\ Addressed \in DOMAIN scopes
  /\ \E sid \in DOMAIN pre.scopes : "A" \in DOMAIN pre.scopes[sid].sessions

(***************************************************************************)
(* C14. Persistence round trip: a restart (default state, then load)       *)
(* yields what the last successful write stored.  Step by step: a write    *)
(* that succeeds stores the sessions, active pointers and nicknames of the *)
(* memory state (a scope with no entry counting as empty); a write that    *)
(* fails keeps the mutation in memory and leaves what a restart would      *)
(* yield as it was; a command that does not write changes neither; a       *)
(* restart yields what the file held and leaves the file alone.            *)
(***************************************************************************)
C14_RoundTrip ==
  [][/\ cmd'.write = "ok" =>
          /\ SameScopes(_load_state'.scopes, scopes')
          /\ _load_state'.nicknames = nicknames'
     /\ cmd'.write \notin {"ok", "none"} =>
          /\ _load_state' = _load_state
          /\ cmd'.handler = "set_nickname" =>
               nicknames'[cmd'.event.sender] = cmd'.nickname
          /\ reply'.kind = "joined_free" =>
               cmd'.event.sender \in
                 Range(scopes'[_get_scope_id(cmd'.event, cmd'.scope)]
                         .sessions["A"].free)
     /\ (cmd'.write = "none" /\ cmd'.handler # "__init__") =>
          /\ _load_state' = _load_state
          /\ SameScopes(scopes', scopes)
          /\ nicknames' = nicknames
     /\ cmd'.handler = "__init__" =>
          /\ _load_state' = _load_state
          /\ scopes' = _load_state.scopes
          /\ nicknames' = _load_state.nicknames
    ]_vars

(***************************************************************************)
(* C16. On every command whose scope follows optional arguments, a last    *)
(* word that is a scope keyword is taken as the scope and not as an        *)
(* argument, also when the earlier arguments are left out: leave with the  *)
(* one word "kuaqun" acts on the default session of the global scope, join *)
(* with the one word "kuaqun" joins the free list of the default session   *)
(* of the global scope, not a team of that name in the group.              *)
(***************************************************************************)
\* the commands whose arguments before the scope are all optional
OptionalThenScope ==
  {"join_team", "leave_team", "list_teams", "my_team", "list_vacancy",
   "random_assign", "reset_teamup"}

C16_TrailingScopeKeyword ==
  (/\ cmd.handler \in OptionalThenScope
   /\ cmd.event.tokens # <<>>
   /\ cmd.event.tokens[Len(cmd.event.tokens)] \in {"benqun", "kuaqun"}) =>
    LET tokens == cmd.event.tokens
        last == tokens[Len(tokens)]
        target == IF last = "kuaqun" THEN "global"
                  ELSE "group:" \o cmd.event.group
        default == Resolved(ScopeOf(pre.scopes, "global"), "")
    IN /\ cmd.scope = last
       /\ \A sid \in (DOMAIN scopes \cup DOMAIN pre.scopes) \ {target} :
            ScopeOf(scopes, sid) = ScopeOf(pre.scopes, sid)
       /\ (cmd.handler = "leave_team" /\ tokens = <<"kuaqun">>) =>
            /\ cmd.session_name = ""
            /\ reply.kind = IF default = "" THEN "notfound" ELSE "ok"
            /\ default # "" =>
                 cmd.event.sender \notin
                   Range(Held(scopes["global"].sessions[default]))
       /\ (cmd.handler = "join_team" /\ tokens = <<"kuaqun">>) =>
            /\ cmd.team_name = ""
            /\ reply.kind = IF default = "" THEN "notfound" ELSE "joined_free"
            /\ default # "" =>
                 cmd.event.sender \in
                   Range(scopes["global"].sessions[default].free)

(***************************************************************************)
(* C21. join_team, create_team and leave_team by user U change only U's    *)
(* own placement in the addressed session: every other user V is in the    *)
(* same team, in free or absent as before; the order of the other members  *)
(* of every team and of free is kept; a team disappears only if U was its  *)
(* only member; team_size, created_by and every other session of the scope *)
(* are unchanged.                                                          *)
(***************************************************************************)
\* the last command was a join_team, create_team or leave_team that went
\* through
PlacementDone ==
  /\ cmd.handler \in {"join_team", "create_team", "leave_team"}
  /\ reply.kind \in {"joined_team", "joined_free", "ok"}

\* seq without x
Without(seq, x) == LET other(y) == y # x IN SelectSeq(seq, other)

C21_OwnPlacementOnly ==
  PlacementDone =>
    LET U == cmd.event.sender
        names == TeamNamesOf(PreSession) \cup TeamNamesOf(PostSession)
    IN /\ \A V \in Users \ {U} :
            /\ TeamsHolding(PostSession, V) = TeamsHolding(PreSession, V)
            /\ (V \in Range(PostSession.free)) = (V \in Range(PreSession.free))
       /\ \A t \in names :
            Without(MembersOf(PostSession, t), U) =
              Without(MembersOf(PreSession, t), U)
       /\ Without(PostSession.free, U) = Without(PreSession.free, U)
       /\ \A t \in TeamNamesOf(PreSession) \ TeamNamesOf(PostSession) :
            MembersOf(PreSession, t) = <<U>>
       /\ PostSession.team_size = PreSession.team_size
       /\ PostSession.created_by = PreSession.created_by
       /\ DOMAIN PostScope.sessions = DOMAIN PreScope.sessions
       /\ \A n \in DOMAIN PreScope.sessions \ {TargetRef} :
            PostScope.sessions[n] = PreScope.sessions[n]

\* U, alone in team Red, joined free behind the two other users: Red is
\* gone, the order of free is kept, and the other session, which holds
\* users too, is as it was
C21_Witness ==
  /\ cmd.handler = "join_team"
  /\ reply.kind = "joined_free"
  /\ PreSession.teams = <<[name |-> "Red", members |-> <<cmd.event.sender>>]>>
  /\ Len(PreSession.free) = 2
  /\ PostSession.teams = <<>>
  /\ PostSession.free = PreSession.free \o <<cmd.event.sender>>
  /\ \E n \in DOMAIN PreScope.sessions \ {TargetRef} :
       /\ PreScope.sessions[n].teams # <<>>
       /\ PreScope.sessions[n].free # <<>>

====
